---- MODULE Spec2Model ----
(***************************************************************************)
(* A model of flo's run logger (flo/logger.py) and of its template         *)
(* rendering facade (flo/templates/__init__.py).                           *)
(*                                                                         *)
(* Text is a sequence of characters (TLA+ strings of length one, and "ESC" *)
(* for the escape character); byte content is a sequence of byte values,   *)
(* written in hexadecimal ("x61").  A piece of content handed to the       *)
(* logger is a record [kind |-> "text" | "bytes", data |-> the sequence].  *)
(***************************************************************************)
EXTENDS Naturals, Sequences, FiniteSets

\* ------------------------------------------------------------------ bounds
\* The terminal is written only while it holds fewer than MaxOut characters.
MaxOut == 3
\* The heap holds at most MaxInst Logger instances.
MaxInst == 2
\* Template texts have at most MaxTpl tokens.
MaxTpl == 3

\* ------------------------------------------------------------ Python values
\* None, the value of the module-level slot before any configure().
None == 0
\* An exception: its type, its message and, for an exception that wraps
\* another, the wrapped exception's type.  NoExc stands for "nothing raised".
Exc(type, message) ==
    [type |-> type, message |-> message, wraps |-> "none"]
NoExc == Exc("none", "")
IOError == Exc("IOError", "errno")
ValueError == Exc("ValueError", "I/O operation on closed file")
TypeError == Exc("TypeError", "cannot concatenate")
UnicodeDecodeError == Exc("UnicodeDecodeError", "codec can't decode byte")
ZeroDivisionError == Exc("ZeroDivisionError", "division by zero")

ESC == "ESC"
NL == "\n"
Digits == {"3"}

\* The interpreters flo/logger.py can be loaded by.  Under Python 2 `bytes` is
\* `str`; under Python 3 bytes and str do not concatenate.
PyVersions == {2, 3}

\* --------------------------------------------------------------- the world
\* The run contexts (task graphs) handed to configure(); "sub1" is a subgraph
\* of "g1" and logs to the same file.
TaskGraphs == {"g1", "g2", "sub1"}
Paths == {"p1", "p2"}
abs_log_path(task_graph) ==
    IF task_graph = "g2" THEN "p2" ELSE "p1"

\* What every log file holds before the process starts: a previous run's log.
OldLog == <<"o">>

\* The content the model hands to write() and info(): plain text, text with a
\* complete colour sequence, the two halves of a colour sequence, and the same
\* as bytes, with one byte string no codec decodes.
TextContents ==
    { <<>>, <<"a", ESC, "[", "3", "m">>, <<ESC, "[">>, <<"m">> }
BytesContents ==
    { <<"x61">>, <<"x61", "x1b", "x5b", "x33", "x6d">>, <<"x61", "xff">> }
Contents ==
    [kind : {"text"}, data : TextContents] \cup [kind : {"bytes"}, data : BytesContents]

\* ------------------------------------------------------------- colorless()
\* flo.colors.colorless, by its contract: every terminal formatting sequence
\* ESC [ digits m is removed, left to right, and every other character is kept.
RECURSIVE SkipDigits(_, _)
SkipDigits(s, i) ==
    IF i <= Len(s) /\ s[i] \in Digits THEN SkipDigits(s, i + 1) ELSE i

\* The length of the colour sequence that starts at s[i], 0 when none does.
EscLen(s, i) ==
    IF i + 1 <= Len(s) /\ s[i] = ESC /\ s[i + 1] = "["
    THEN LET j == SkipDigits(s, i + 2)
         IN  IF j <= Len(s) /\ s[j] = "m" THEN j - i + 1 ELSE 0
    ELSE 0

RECURSIVE StripFrom(_, _)
StripFrom(s, i) ==
    IF i > Len(s) THEN <<>>
    ELSE IF EscLen(s, i) > 0 THEN StripFrom(s, i + EscLen(s, i))
    ELSE <<s[i]>> \o StripFrom(s, i + 1)

colorless(string) ==
    StripFrom(string, 1)

\* ---------------------------------------------------------- bytes and text
\* isinstance(content, bytes)
isinstance_bytes(content) ==
    content.kind = "bytes"

\* The character a byte decodes to (the ASCII range, which the default codec
\* of either interpreter decodes alike).
AsciiBytes == {"x0a", "x1b", "x33", "x5b", "x61", "x6d"}
Chr(b) ==
    CASE b = "x1b" -> ESC
      [] b = "x5b" -> "["
      [] b = "x33" -> "3"
      [] b = "x6d" -> "m"
      [] b = "x61" -> "a"
      [] b = "x0a" -> NL

\* bytes.decode() with the default codec: text, or UnicodeDecodeError on a byte
\* the codec does not decode.
decode(data) ==
    IF \A i \in 1..Len(data) : data[i] \in AsciiBytes
    THEN [exc |-> NoExc, text |-> [i \in 1..Len(data) |-> Chr(data[i])]]
    ELSE [exc |-> UnicodeDecodeError, text |-> <<>>]

\* content + '\n' (Logger.info): text gains a newline character; a byte string
\* gains a newline byte under Python 2, where '\n' is a byte string too, and
\* raises TypeError under Python 3.
add_newline(content, version) ==
    IF content.kind = "text"
    THEN [exc |-> NoExc, content |-> [kind |-> "text", data |-> content.data \o <<NL>>]]
    ELSE IF version = 2
    THEN [exc |-> NoExc, content |-> [kind |-> "bytes", data |-> content.data \o <<"x0a">>]]
    ELSE [exc |-> TypeError, content |-> content]

\* ------------------------------------------------------------------- state
VARIABLES
    py,          \* the interpreter's major version, fixed for the process
    _logger,     \* the module-level slot: None or a reference to a Logger
    objs,        \* the heap: objs[r] is the Logger instance with reference r
    files,       \* the file system: files[p] is the text the file at p holds
    stdout,      \* sys.stdout: [buf |-> written, not flushed, out |-> on the terminal]
    result,      \* the last call: its operation, arguments, exception, return value
    opens,       \* history: opens[p] counts the successful open(p, 'w')
    returned,    \* history: the references configure() has returned
    first_graph, \* history: the task graph of the first configure() that returned
    last_failed  \* history: the task graph of the last configure() that raised

vars ==
    <<py, _logger, objs, files, stdout, result, opens, returned, first_graph,
      last_failed>>

NoGraph == "none"

Call(op, self, arg, exc, ret) ==
    [op |-> op, self |-> self, arg |-> arg, exc |-> exc, ret |-> ret]

Refs == 1..Len(objs)

\* Everything written to sys.stdout so far, flushed or not.
TermText == stdout.out \o stdout.buf

Init ==
    /\ py \in PyVersions
    /\ _logger = None
    /\ objs = <<>>
    /\ files = [p \in Paths |-> OldLog]
    /\ stdout = [buf |-> <<>>, out |-> <<>>]
    /\ result = Call("import", None, <<>>, NoExc, None)
    /\ opens = [p \in Paths |-> 0]
    /\ returned = {}
    /\ first_graph = NoGraph
    /\ last_failed = NoGraph

\* ------------------------------------------------------- the environment's say
\* Whether an open() succeeds, and whether a write on sys.stdout does, is the
\* environment's choice at each call.
OpenIO == {"ok", "fail"}
TermIO == {"ok", "fail"}

\* ------------------------------------------------------------------ Logger
\* Logger.__init__: open(task_graph.abs_log_path, 'w') creates or truncates the
\* file and the instance keeps the handle; an open that fails raises and no
\* instance comes to be.
Logger(task_graph, io) ==
    LET path == abs_log_path(task_graph)
    IN  IF io = "ok"
        THEN [exc   |-> NoExc,
              obj   |-> [log_file |-> [path |-> path, closed |-> FALSE]],
              files |-> [files EXCEPT ![path] = <<>>],
              opens |-> [opens EXCEPT ![path] = @ + 1]]
        ELSE [exc   |-> IOError,
              obj   |-> [log_file |-> None],
              files |-> files,
              opens |-> opens]

\* Mutant: the log file is handed the content as it is, colour sequences and all.
write_uncolored(self, content, tio) ==
    LET dec  == IF isinstance_bytes(content)
                THEN decode(content.data)
                ELSE [exc |-> NoExc, text |-> content.data]
        flushed == [buf |-> <<>>, out |-> stdout.out \o stdout.buf \o dec.text]
        log_file == objs[self].log_file
    IN  IF dec.exc # NoExc
        THEN [exc |-> dec.exc, stdout |-> stdout, files |-> files]
        ELSE IF tio # "ok"
        THEN [exc |-> IOError, stdout |-> stdout, files |-> files]
        ELSE IF log_file.closed
        THEN [exc |-> ValueError, stdout |-> flushed, files |-> files]
        ELSE [exc    |-> NoExc,
              stdout |-> flushed,
              files  |-> [files EXCEPT ![log_file.path] = @ \o dec.text]]

\* Mutant: byte content is not decoded before it is written.
write_undecoded(self, content, tio) ==
    LET text == content.data
        flushed == [buf |-> <<>>, out |-> stdout.out \o stdout.buf \o text]
        log_file == objs[self].log_file
    IN  IF tio # "ok"
        THEN [exc |-> IOError, stdout |-> stdout, files |-> files]
        ELSE IF log_file.closed
        THEN [exc |-> ValueError, stdout |-> flushed, files |-> files]
        ELSE [exc    |-> NoExc,
              stdout |-> flushed,
              files  |-> [files EXCEPT ![log_file.path] = @ \o colorless(text)]]

\* Mutant: the log file is written before the terminal.
write_log_first(self, content, tio) ==
    LET dec  == IF isinstance_bytes(content)
                THEN decode(content.data)
                ELSE [exc |-> NoExc, text |-> content.data]
        flushed == [buf |-> <<>>, out |-> stdout.out \o stdout.buf \o dec.text]
        log_file == objs[self].log_file
        logged == [files EXCEPT ![log_file.path] = @ \o colorless(dec.text)]
    IN  IF dec.exc # NoExc
        THEN [exc |-> dec.exc, stdout |-> stdout, files |-> files]
        ELSE IF log_file.closed
        THEN [exc |-> ValueError, stdout |-> stdout, files |-> files]
        ELSE IF tio # "ok"
        THEN [exc |-> IOError, stdout |-> stdout, files |-> logged]
        ELSE [exc |-> NoExc, stdout |-> flushed, files |-> logged]

\* Logger.write, its statements in order; the first that raises ends the call
\* with what the earlier ones did left in place.
write(self, content, tio) ==
    LET dec  == IF isinstance_bytes(content)
                THEN decode(content.data)
                ELSE [exc |-> NoExc, text |-> content.data]
        text == dec.text
        \* sys.stdout.write(content)
        written == [stdout EXCEPT !.buf = @ \o text]
        \* sys.stdout.flush()
        flushed == [buf |-> <<>>, out |-> written.out \o written.buf]
        log_file == objs[self].log_file
    IN  IF dec.exc # NoExc
        THEN [exc |-> dec.exc, stdout |-> stdout, files |-> files]
        ELSE IF tio # "ok"
        THEN [exc |-> IOError, stdout |-> stdout, files |-> files]
        \* self.log_file.write(colorless(content))
        ELSE IF log_file.closed
        THEN [exc |-> ValueError, stdout |-> flushed, files |-> files]
        ELSE [exc    |-> NoExc,
              stdout |-> flushed,
              files  |-> [files EXCEPT ![log_file.path] = @ \o colorless(text)]]

\* Mutant: the newline is forgotten.
info_no_newline(self, content, tio) ==
    write(self, content, tio)

\* Logger.info: self.write(content + '\n')
info(self, content, tio) ==
    LET line == add_newline(content, py)
    IN  IF line.exc # NoExc
        THEN [exc |-> line.exc, stdout |-> stdout, files |-> files]
        ELSE write(self, line.content, tio)

\* Mutant: closing a closed handle raises.
close_strict(self) ==
    IF objs[self].log_file.closed
    THEN [exc |-> ValueError, objs |-> objs]
    ELSE [exc |-> NoExc, objs |-> [objs EXCEPT ![self].log_file.closed = TRUE]]

\* Logger.close: self.log_file.close().  Closing a file object that is closed
\* already does nothing and raises nothing.
close(self) ==
    [exc |-> NoExc, objs |-> [objs EXCEPT ![self].log_file.closed = TRUE]]

\* --------------------------------------------------- the module's functions
\* get()
get ==
    _logger

\* Mutant: the guard on the slot is missing; every call constructs.
configure_always(task_graph, io) ==
    LET new == Logger(task_graph, io)
    IN  IF new.exc # NoExc
        THEN [exc |-> new.exc, ret |-> None, _logger |-> _logger,
              objs |-> objs, files |-> files, opens |-> opens]
        ELSE [exc |-> NoExc, ret |-> Len(objs) + 1, _logger |-> Len(objs) + 1,
              objs |-> Append(objs, new.obj), files |-> new.files,
              opens |-> new.opens]

\* Mutant: a logger whose file is closed is replaced by a new one.
configure_reopen(task_graph, io) ==
    IF _logger # None /\ ~objs[_logger].log_file.closed
    THEN [exc |-> NoExc, ret |-> _logger, _logger |-> _logger,
          objs |-> objs, files |-> files, opens |-> opens]
    ELSE configure_always(task_graph, io)

\* Mutant: the slot is set before the file is opened, so a failed open leaves
\* an instance without an open file in it.
configure_slot_first(task_graph, io) ==
    LET new == Logger(task_graph, io)
        stub == [log_file |-> [path |-> abs_log_path(task_graph), closed |-> TRUE]]
    IN  IF _logger # None
        THEN [exc |-> NoExc, ret |-> _logger, _logger |-> _logger,
              objs |-> objs, files |-> files, opens |-> opens]
        ELSE IF new.exc # NoExc
        THEN [exc |-> new.exc, ret |-> None, _logger |-> Len(objs) + 1,
              objs |-> Append(objs, stub), files |-> files, opens |-> opens]
        ELSE [exc |-> NoExc, ret |-> Len(objs) + 1, _logger |-> Len(objs) + 1,
              objs |-> Append(objs, new.obj), files |-> new.files,
              opens |-> new.opens]

\* configure(task_graph)
configure(task_graph, io) ==
    IF _logger # None
    THEN [exc |-> NoExc, ret |-> _logger, _logger |-> _logger,
          objs |-> objs, files |-> files, opens |-> opens]
    ELSE LET new == Logger(task_graph, io)
         IN  IF new.exc # NoExc
             THEN [exc |-> new.exc, ret |-> None, _logger |-> _logger,
                   objs |-> objs, files |-> files, opens |-> opens]
             ELSE [exc |-> NoExc, ret |-> Len(objs) + 1, _logger |-> Len(objs) + 1,
                   objs |-> Append(objs, new.obj), files |-> new.files,
                   opens |-> new.opens]

\* ----------------------------------------------------------------- actions
Configure(task_graph, io) ==
    LET r == configure(task_graph, io)
    IN  /\ Len(r.objs) <= MaxInst
        /\ _logger' = r._logger
        /\ objs' = r.objs
        /\ files' = r.files
        /\ opens' = r.opens
        /\ result' = Call("configure", None, task_graph, r.exc, r.ret)
        /\ returned' = IF r.exc = NoExc THEN returned \cup {r.ret} ELSE returned
        /\ first_graph' = IF r.exc = NoExc /\ first_graph = NoGraph
                          THEN task_graph ELSE first_graph
        /\ last_failed' = IF r.exc # NoExc THEN task_graph ELSE last_failed
        /\ UNCHANGED <<py, stdout>>

\* Mutant: get() constructs the logger when there is none.
GetOrCreate ==
    LET r == configure("g1", "ok")
    IN  /\ Len(r.objs) <= MaxInst
        /\ _logger' = r._logger
        /\ objs' = r.objs
        /\ files' = r.files
        /\ opens' = r.opens
        /\ result' = Call("get", None, <<>>, NoExc, r.ret)
        /\ UNCHANGED <<py, stdout, returned, first_graph, last_failed>>

Get ==
    /\ result' = Call("get", None, <<>>, NoExc, get)
    /\ UNCHANGED <<py, _logger, objs, files, stdout, opens, returned, first_graph,
                   last_failed>>

Write(self, content, tio) ==
    LET r == write(self, content, tio)
    IN  /\ Len(TermText) < MaxOut
        /\ stdout' = r.stdout
        /\ files' = r.files
        /\ result' = Call("write", self, content, r.exc, None)
        /\ UNCHANGED <<py, _logger, objs, opens, returned, first_graph, last_failed>>

Info(self, content, tio) ==
    LET r == info(self, content, tio)
    IN  /\ Len(TermText) < MaxOut
        /\ stdout' = r.stdout
        /\ files' = r.files
        /\ result' = Call("info", self, content, r.exc, None)
        /\ UNCHANGED <<py, _logger, objs, opens, returned, first_graph, last_failed>>

\* The call's record keeps the state it found the handle in.
Close(self) ==
    LET r == close(self)
    IN  /\ objs' = r.objs
        /\ result' = Call("close", self, [closed |-> objs[self].log_file.closed],
                          r.exc, None)
        /\ UNCHANGED <<py, _logger, files, stdout, opens, returned, first_graph,
                       last_failed>>

\* ------------------------------------------------------ template rendering
\* A template text is a sequence of tokens: the print delimiters "{{" and "}}",
\* the expressions "x" (a name) and "1/0" (a division by zero), which outside
\* a print statement are literal text like any other token.
TplTokens == {"{{", "}}", "x", "1/0"}
TplExprs == {"x", "1/0"}
RECURSIVE SeqsUpTo(_, _)
SeqsUpTo(S, n) ==
    IF n = 0 THEN {<<>>}
    ELSE LET shorter == SeqsUpTo(S, n - 1)
         IN  shorter \cup {Append(t, x) : t \in shorter, x \in S}
Templates == SeqsUpTo(TplTokens, MaxTpl)

\* The context mappings handed to a render call.
ContextDicts == { <<>>, [n \in {"x"} |-> <<"4", "2">>] }

\* jinja2.Environment().from_string: the message of the TemplateSyntaxError the
\* engine raises for the text from token i on, "" when it compiles.  A "{{"
\* must be followed by one expression and a "}}".
RECURSIVE syntax_error(_, _)
syntax_error(source, i) ==
    IF i > Len(source) THEN ""
    ELSE IF source[i] # "{{" THEN syntax_error(source, i + 1)
    ELSE IF i + 1 > Len(source) THEN "unexpected 'end of template'"
    ELSE IF source[i + 1] \notin TplExprs THEN "expected an expression"
    ELSE IF i + 2 > Len(source) THEN "unexpected 'end of template'"
    ELSE IF source[i + 2] # "}}" THEN "expected token 'end of print statement'"
    ELSE syntax_error(source, i + 3)

from_string(source) ==
    LET message == syntax_error(source, 1)
    IN  IF message = ""
        THEN [exc |-> NoExc, template_obj |-> source]
        ELSE [exc |-> Exc("TemplateSyntaxError", message), template_obj |-> <<>>]

\* template_obj.render(**context_dict) of a compiled template, from token i on:
\* literal text is copied, a name prints its value or nothing when the context
\* does not define it, and an expression that raises ends the rendering.
RECURSIVE render(_, _, _)
render(template_obj, context_dict, i) ==
    IF i > Len(template_obj) THEN [exc |-> NoExc, text |-> <<>>]
    ELSE IF template_obj[i] # "{{"
    THEN LET rest == render(template_obj, context_dict, i + 1)
         IN  [rest EXCEPT !.text = IF rest.exc = NoExc THEN <<template_obj[i]>> \o @ ELSE @]
    ELSE IF template_obj[i + 1] = "1/0"
    THEN [exc |-> ZeroDivisionError, text |-> <<>>]
    ELSE LET name == template_obj[i + 1]
             value == IF name \in DOMAIN context_dict THEN context_dict[name] ELSE <<>>
             rest == render(template_obj, context_dict, i + 3)
         IN  [rest EXCEPT !.text = IF rest.exc = NoExc THEN value \o @ ELSE @]

\* flo.exceptions.JinjaError(error): the tool's templating error, which wraps
\* the engine's error and carries its message.
JinjaError(error) ==
    [type |-> "JinjaError", message |-> error.message, wraps |-> error.type]

\* Mutant: the engine's syntax error is not caught.
render_from_string_untranslated(template_string, context_dict) ==
    LET compiled == from_string(template_string)
    IN  IF compiled.exc # NoExc
        THEN [exc |-> compiled.exc, text |-> <<>>]
        ELSE render(compiled.template_obj, context_dict, 1)

\* render_from_string(template_string, **context_dict)
render_from_string(template_string, context_dict) ==
    LET compiled == from_string(template_string)
    IN  IF compiled.exc.type = "TemplateSyntaxError"
        THEN [exc |-> JinjaError(compiled.exc), text |-> <<>>]
        ELSE render(compiled.template_obj, context_dict, 1)

RenderFromString(template_string, context_dict) ==
    LET r == render_from_string(template_string, context_dict)
    IN  /\ result' = Call("render_from_string", None,
                          [template_string |-> template_string,
                           context_dict |-> context_dict],
                          r.exc, r.text)
        /\ UNCHANGED <<py, _logger, objs, files, stdout, opens, returned,
                       first_graph, last_failed>>

NextRender ==
    \E t \in Templates, d \in ContextDicts : RenderFromString(t, d)

RenderSpec == Init /\ [][NextRender]_vars

Next ==
    \/ \E g \in TaskGraphs, io \in OpenIO : Configure(g, io)
    \/ Get
    \/ \E self \in Refs, c \in Contents, tio \in TermIO : Write(self, c, tio)
    \/ \E self \in Refs, c \in Contents, tio \in TermIO : Info(self, c, tio)
    \/ \E self \in Refs : Close(self)

Spec == Init /\ [][Next]_vars

\* ------------------------------------------------------------------ claims
\* The text a write() of `content` hands to the sinks, when it decodes.
Decoded(content) ==
    IF content.kind = "bytes" THEN decode(content.data).text ELSE content.data

Decodes(content) ==
    content.kind = "text" \/ decode(content.data).exc = NoExc

\* The text of the log file behind the Logger with reference `self`.
LogOf(fs, self) ==
    fs[objs[self].log_file.path]

\* C1: whatever run contexts configure() is called with, every call that
\* returns returns the one Logger the first successful call created, and one
\* log file only is ever opened, once, at that first context's abs_log_path;
\* the file of any other path is never opened or truncated.
C1_OneLoggerOneFile ==
    /\ Cardinality(returned) <= 1
    /\ Len(objs) <= 1
    /\ (result.op = "configure" /\ result.exc = NoExc) =>
          /\ result.ret # None
          /\ result.ret = _logger
          /\ returned = {result.ret}
    /\ first_graph = NoGraph =>
          /\ returned = {}
          /\ \A p \in Paths : opens[p] = 0 /\ files[p] = OldLog
    /\ first_graph # NoGraph =>
          /\ \A r \in returned :
                r \in Refs /\ objs[r].log_file.path = abs_log_path(first_graph)
          /\ \A p \in Paths :
                opens[p] = IF p = abs_log_path(first_graph) THEN 1 ELSE 0
          /\ \A p \in Paths :
                p # abs_log_path(first_graph) => files[p] = OldLog

\* A second configure(), with another context and another path, has returned.
C1_Witness ==
    /\ result.op = "configure"
    /\ result.exc = NoExc
    /\ first_graph = "g1"
    /\ result.arg = "g2"
    /\ result.ret = 1
    /\ files["p2"] = OldLog

\* C2: a get() constructs nothing, opens nothing and leaves the slot as it is;
\* it returns None while no configure() has returned, and afterwards the very
\* instance configure() returned.
C2_GetOnlyReads ==
    [][result'.op = "get" =>
          /\ _logger' = _logger
          /\ objs' = objs
          /\ files' = files
          /\ opens' = opens
          /\ result'.exc = NoExc
          /\ result'.ret = _logger
          /\ returned = {} => result'.ret = None
          /\ returned # {} => returned = {result'.ret}]_vars

\* get() has returned the configured instance, after other calls on it.
C2_Witness ==
    /\ result.op = "get"
    /\ result.ret # None
    /\ result.ret \in returned
    /\ objs[result.ret].log_file.closed
    /\ TermText # <<>>

\* C3: a write(content) that succeeds appends the content verbatim, colour
\* sequences included, to the terminal, and appends colorless(content) to the
\* log file and nothing else to any file; content without a colour sequence
\* is appended alike to both.
C3_WriteFansOut ==
    [][(result'.op = "write" /\ result'.exc = NoExc) =>
          LET self == result'.self
              text == Decoded(result'.arg)
          IN  /\ stdout'.out = TermText \o text
              /\ stdout'.buf = <<>>
              /\ files' = [files EXCEPT ![objs[self].log_file.path] =
                                            @ \o colorless(text)]
              /\ colorless(text) = text =>
                    LogOf(files', self) = LogOf(files, self) \o text]_vars

\* A text with a colour sequence has been written: the terminal holds the
\* sequence, the log file holds the text without it.
C3_Witness ==
    /\ result.op = "write"
    /\ result.exc = NoExc
    /\ result.arg = [kind |-> "text", data |-> <<"a", ESC, "[", "3", "m">>]
    /\ stdout.out = <<"a", ESC, "[", "3", "m">>
    /\ LogOf(files, result.self) = <<"a">>

C5_InfoIsWriteLine ==
    [][result'.op = "info" =>
          LET self == result'.self
              line == add_newline(result'.arg, py)
          IN  IF line.exc # NoExc
              THEN /\ result'.exc = line.exc
                   /\ stdout' = stdout
                   /\ files' = files
              ELSE /\ \E tio \in TermIO :
                         LET w == write(self, line.content, tio)
                         IN  /\ result'.exc = w.exc
                             /\ stdout' = w.stdout
                             /\ files' = w.files
                   /\ result'.exc = NoExc =>
                         /\ stdout'.out = TermText \o Decoded(result'.arg) \o <<NL>>
                         /\ LogOf(files', self) =
                               LogOf(files, self)
                                  \o colorless(Decoded(result'.arg) \o <<NL>>)]_vars

\* info("a" + colour) has succeeded: both sinks end with the newline.
C5_Witness ==
    /\ result.op = "info"
    /\ result.exc = NoExc
    /\ result.arg.kind = "text"
    /\ stdout.out = <<"a", ESC, "[", "3", "m", NL>>
    /\ LogOf(files, result.self) = <<"a", NL>>

\* C6: a write of byte content does what a write of the decoded text does from
\* the same state; when the bytes do not decode, the decoder's error is raised
\* and neither sink has been written.
C6_BytesAsText ==
    [][(result'.op = "write" /\ result'.arg.kind = "bytes") =>
          LET self == result'.self
              dec == decode(result'.arg.data)
          IN  IF dec.exc # NoExc
              THEN /\ result'.exc = dec.exc
                   /\ stdout' = stdout
                   /\ files' = files
              ELSE \E tio \in TermIO :
                      LET w == write(self, [kind |-> "text", data |-> dec.text], tio)
                      IN  /\ result'.exc = w.exc
                          /\ stdout' = w.stdout
                          /\ files' = w.files]_vars

\* b"a" + colour has been written: the sinks hold what the text would leave.
C6_Witness ==
    /\ result.op = "write"
    /\ result.exc = NoExc
    /\ result.arg = [kind |-> "bytes", data |-> <<"x61", "x1b", "x5b", "x33", "x6d">>]
    /\ stdout.out = <<"a", ESC, "[", "3", "m">>
    /\ LogOf(files, result.self) = <<"a">>

\* C7 as stated: for a template text the engine rejects with a syntax error,
\* render_from_string raises JinjaError, which wraps the engine's error and
\* carries its message, not empty, and never the engine's own error type; for
\* a text the engine accepts it returns the rendered text.
C7_TranslatesOrReturns ==
    result.op = "render_from_string" =>
        LET source == result.arg.template_string
            message == syntax_error(source, 1)
        IN  IF message # ""
            THEN /\ result.exc.type = "JinjaError"
                 /\ result.exc.wraps = "TemplateSyntaxError"
                 /\ result.exc.message = message
            ELSE /\ result.exc = NoExc
                 /\ result.ret = render(source, result.arg.context_dict, 1).text

\* C7, amended: a syntax error of the engine is raised as JinjaError, which
\* wraps it and carries its message, not empty; a text the engine accepts is
\* rendered, and the call returns the rendered text unless the rendering
\* itself raises, and then that error reaches the caller as it is.
C7_TranslatesSyntaxErrorsOnly ==
    result.op = "render_from_string" =>
        LET source == result.arg.template_string
            message == syntax_error(source, 1)
            rendered == render(source, result.arg.context_dict, 1)
        IN  /\ result.exc.type # "TemplateSyntaxError"
            /\ IF message # ""
               THEN /\ result.exc.type = "JinjaError"
                    /\ result.exc.wraps = "TemplateSyntaxError"
                    /\ result.exc.message = message
               ELSE /\ result.exc = rendered.exc
                    /\ result.exc.type # "JinjaError"
                    /\ result.exc = NoExc => result.ret = rendered.text

\* render_from_string("{{") has raised JinjaError.
C7_Witness ==
    /\ result.op = "render_from_string"
    /\ result.arg.template_string = <<"{{">>
    /\ result.exc.type = "JinjaError"
    /\ result.exc.message # ""

\* C8: in a write() the terminal is written and flushed before the log file
\* is written, and nothing is undone: when the terminal write raises, the
\* error reaches the caller and the log file is as it was; when the log-file
\* write raises, as on a Logger whose file is closed, the error reaches the
\* caller with the content written and flushed on the terminal.  A write that
\* succeeds has reached both sinks.
C8_TerminalFirstNoRollback ==
    [][(result'.op = "write" /\ Decodes(result'.arg)) =>
          LET self == result'.self
              text == Decoded(result'.arg)
              closed == objs[self].log_file.closed
          IN  /\ stdout'.buf = <<>> \/ stdout' = stdout
              /\ result'.exc = IOError =>
                    stdout' = stdout /\ files' = files
              /\ result'.exc = ValueError =>
                    /\ closed
                    /\ stdout'.out = TermText \o text
                    /\ files' = files
              /\ closed => result'.exc \in {IOError, ValueError}
              /\ result'.exc = NoExc =>
                    /\ stdout'.out = TermText \o text
                    /\ LogOf(files', self) = LogOf(files, self) \o colorless(text)
              /\ files' # files => result'.exc = NoExc
              /\ result'.exc \in {NoExc, IOError, ValueError}]_vars

\* A write on a closed Logger has raised with its content on the terminal and
\* not in the log file.
C8_Witness ==
    /\ result.op = "write"
    /\ result.exc = ValueError
    /\ result.arg.data = <<"a", ESC, "[", "3", "m">>
    /\ stdout = [buf |-> <<>>, out |-> <<"a", ESC, "[", "3", "m">>]
    /\ LogOf(files, result.self) = <<>>

\* C9: close() leaves the slot as it is, and once the slot holds a Logger
\* whose file is closed no call changes that: the slot keeps the instance, its
\* file stays closed, no file is opened, and get() and configure(), whatever
\* its context, return that instance.
C9_ClosedForGood ==
    [][/\ result'.op = "close" => _logger' = _logger
       /\ (_logger # None /\ objs[_logger].log_file.closed) =>
             /\ _logger' = _logger
             /\ objs' = objs
             /\ opens' = opens
             /\ result'.op \in {"get", "configure"} =>
                   result'.exc = NoExc /\ result'.ret = _logger]_vars

\* configure() with another context has returned the closed instance.
C9_Witness ==
    /\ result.op = "configure"
    /\ result.arg = "g2"
    /\ first_graph = "g1"
    /\ result.ret = _logger
    /\ objs[_logger].log_file.closed
    /\ opens = [p \in Paths |-> IF p = "p1" THEN 1 ELSE 0]

\* C10: a configure() whose open fails raises the error and leaves the slot
\* empty, every file as it was and no instance behind; a configure() called
\* while the slot is empty that returns has constructed the Logger from its
\* own context, whichever contexts failed before.
C10_FailedConfigureLeavesNothing ==
    [][result'.op = "configure" =>
          LET path == abs_log_path(result'.arg)
          IN  /\ result'.exc # NoExc =>
                    /\ result'.exc = IOError
                    /\ _logger = None
                    /\ _logger' = None
                    /\ objs' = objs
                    /\ files' = files
                    /\ opens' = opens
                    /\ first_graph' = first_graph
              /\ (result'.exc = NoExc /\ _logger = None) =>
                    /\ _logger' = result'.ret
                    /\ _logger' \in 1..Len(objs')
                    /\ objs'[_logger'].log_file = [path |-> path, closed |-> FALSE]
                    /\ files' = [files EXCEPT ![path] = <<>>]
                    /\ opens' = [opens EXCEPT ![path] = @ + 1]
                    /\ first_graph' = result'.arg]_vars

\* configure("g1") has failed, and the configure("g2") after it has opened
\* g2's file and none else.
C10_Witness ==
    /\ last_failed = "g1"
    /\ first_graph = "g2"
    /\ result.op = "configure"
    /\ result.arg = "g2"
    /\ _logger = result.ret
    /\ objs[_logger].log_file.path = "p2"
    /\ files = [p \in Paths |-> IF p = "p2" THEN <<>> ELSE OldLog]
    /\ opens = [p \in Paths |-> IF p = "p2" THEN 1 ELSE 0]

====
